---- MODULE Spec2Model ----
(***************************************************************************)
(* Model of the Pomodoro session controller, PomodoroTimer in              *)
(* src/pomodoro_logic.py: the controller's fields, the UI-facing methods   *)
(* (start_timer, toggle, reset, set_durations) called from the single UI   *)
(* thread, and the countdown threads that run run_timer / switch_period.   *)
(*                                                                         *)
(* The UI thread and the countdown threads interleave.  A countdown thread *)
(* is split at every place where it blocks, sleeps, or reads a field that  *)
(* the UI thread may write: acquiring timer_lock, the loop test, the sleep *)
(* and the load of current_time, the store of current_time - 1, the test   *)
(* after the loop, and the statements of switch_period.  reset, toggle and *)
(* set_durations take no lock and are one step each; start_timer is two    *)
(* steps, split where it blocks on timer_lock.                             *)
(*                                                                         *)
(* time.ctime() timestamps of history entries are left out: an entry is    *)
(* its type and its goal, and its position in the sequence is its order.   *)
(***************************************************************************)
EXTENDS Integers, Sequences, FiniteSets, TLC

\* ---- bounds of the model ------------------------------------------------
MaxDur == 2
MaxThreads == 3
MaxHist == 3
MaxHistRun == 8

\* ---- program constants --------------------------------------------------
NotifySeconds == 60
LongBreakEvery == 4

\* The durations the constructor and set_durations are given: the shortest
\* positive duration and the longest one the model counts down
Durations == {1, MaxDur}
Threads == 1..MaxThreads

VARIABLES
    work_duration, short_break_duration, long_break_duration,
    is_running, goal, session_history, current_time, is_work_period,
    session_count,
    timer_lock,   \* 0: free, t: held by countdown thread t
    thread,       \* thread[t]: position and locals of countdown thread t
    ui,           \* position of the UI thread
    out,          \* the signals emitted by the last step, in order
    lastOp,       \* the statement(s) the last step executed, and by whom
    stale,        \* the countdown thread whose tick a reset() interrupted:
                  \* reset ran on the running timer while the thread was
                  \* inside time.sleep; 0 once that tick is over
    notified,     \* the number of notify_user signals emitted since
                  \* current_time was last set to a period's duration
    shown         \* the elapsed fraction of the last update signal emitted

durs == <<work_duration, short_break_duration, long_break_duration>>
vars == <<work_duration, short_break_duration, long_break_duration,
          is_running, goal, session_history, current_time, is_work_period,
          session_count, timer_lock, thread, ui, out, lastOp, stale,
          notified, shown>>

\* A step: the name of the statement(s) executed and the arguments of the
\* call, or the countdown thread that took the step
Op(name, args) == [op |-> name, args |-> args]

\* ---- signals ------------------------------------------------------------
Signal(name, arg) == [sig |-> name, arg |-> arg]

\* f"{mins:02d}:{secs:02d}" of divmod(duration, 60): the pair (mins, secs)
format_duration(duration) == <<duration \div 60, duration % 60>>

\* BreakDuration that never selects the long break
BreakDurationShort(sc, s, l) == s

\* The break duration update_time and switch_period select from session_count
BreakDuration(sc, s, l) == IF sc % LongBreakEvery # 0 THEN s ELSE l

\* update_time that uses the work formula of line 150 in breaks too
update_timeWorkOnly(ct, wp, sc, w, s, l) ==
    Signal("update", <<format_duration(ct), <<w - ct, w>>>>)

\* update_time: the time string and the elapsed fraction, a rational
\* <<numerator, denominator>>: (w - ct) / w, and 1 - ct / d = (d - ct) / d
update_time(ct, wp, sc, w, s, l) ==
    LET d == IF wp THEN w ELSE BreakDuration(sc, s, l)
    IN  Signal("update", <<format_duration(ct), <<d - ct, d>>>>)

\* The signals named name among the signals o a step emitted
Emitted(o, name) == {i \in DOMAIN o : o[i].sig = name}

\* The elapsed fraction an update signal carries
Fraction(sig) == sig.arg[2]

\* ---- countdown threads ---------------------------------------------------
NoThread == [pc |-> "none", tmp |-> 0, session_type |-> ""]
Sleeping == {t \in Threads : thread[t].pc = "sleep"}
At(t, p) == thread[t].pc = p
Goto(t, p) == [thread EXCEPT ![t] = [pc |-> p, tmp |-> 0, session_type |-> ""]]

FreeSlots == {t \in Threads : thread[t].pc = "none"}
NewThread == CHOOSE t \in FreeSlots : \A u \in FreeSlots : t <= u
\* Thread(target=self.run_timer).start(): the new thread is about to enter
\* run_timer's "with timer_lock"
Spawned(th) == [th EXCEPT ![NewThread] = [pc |-> "acquire", tmp |-> 0, session_type |-> ""]]

Alive == {t \in Threads : thread[t].pc # "none"}
InRunTimer == {t \in Threads : thread[t].pc \notin {"none", "acquire"}}

\* The thread whose tick a reset interrupts: the one inside time.sleep while
\* the timer runs, else the one an earlier reset interrupted
InFlight == IF is_running /\ Sleeping # {} THEN CHOOSE t \in Sleeping : TRUE ELSE stale

\* A goal text is a sequence of characters, "" the empty one.  The controller
\* never compares goals, so each start_timer call is given a text no earlier
\* call used.
NewGoals == {<<Len(session_history) + 1>>}

HistRoom(n) == Len(session_history) < n

\* ---- the state after __init__ --------------------------------------------
Init ==
    /\ work_duration \in Durations
    /\ short_break_duration \in Durations
    /\ long_break_duration \in Durations
    /\ is_running = FALSE
    /\ goal = <<>>
    /\ session_history = <<>>
    /\ current_time = work_duration
    /\ is_work_period = TRUE
    /\ session_count = 0
    /\ timer_lock = 0
    /\ thread = [t \in Threads |-> NoThread]
    /\ ui = [pc |-> "idle", was_running |-> FALSE]
    /\ out = <<>>
    /\ lastOp = Op("init", <<>>)
    /\ stale = 0
    /\ notified = 0
    /\ shown = <<0, work_duration>>

\* The state after __init__ with durations on both sides of the 60 seconds
\* of line 113: a break of 60 seconds is the GUI's shortest (max(.., 1) * 60,
\* pomodoro_gui.py lines 443-444)
InitNotify ==
    /\ work_duration \in {1, NotifySeconds + 1}
    /\ short_break_duration \in {NotifySeconds, NotifySeconds + 1}
    /\ long_break_duration \in {NotifySeconds, NotifySeconds + 1}
    /\ is_running = FALSE
    /\ goal = <<>>
    /\ session_history = <<>>
    /\ current_time = work_duration
    /\ is_work_period = TRUE
    /\ session_count = 0
    /\ timer_lock = 0
    /\ thread = [t \in Threads |-> NoThread]
    /\ ui = [pc |-> "idle", was_running |-> FALSE]
    /\ out = <<>>
    /\ lastOp = Op("init", <<>>)
    /\ stale = 0
    /\ notified = 0
    /\ shown = <<0, work_duration>>

\* ---- UI-facing methods ---------------------------------------------------
\* Reset with line 59 (session_count = 0) left out
ResetKeepsCount ==
    /\ ui.pc = "idle"
    /\ current_time' = work_duration
    /\ is_work_period' = TRUE
    /\ out' = <<update_time(work_duration, TRUE, session_count, work_duration,
                            short_break_duration, long_break_duration)>>
    /\ lastOp' = Op("reset", <<>>)
    /\ notified' = 0
    /\ shown' = Fraction(out'[1])
    /\ stale' = InFlight
    /\ UNCHANGED <<work_duration, short_break_duration, long_break_duration,
                   is_running, goal, session_history, session_count,
                   timer_lock, thread, ui>>

\* Reset that also stops the timer
ResetStops ==
    /\ ui.pc = "idle"
    /\ current_time' = work_duration
    /\ session_count' = 0
    /\ is_work_period' = TRUE
    /\ is_running' = FALSE
    /\ out' = <<update_time(work_duration, TRUE, 0, work_duration,
                            short_break_duration, long_break_duration)>>
    /\ lastOp' = Op("reset", <<>>)
    /\ notified' = 0
    /\ shown' = Fraction(out'[1])
    /\ stale' = InFlight
    /\ UNCHANGED <<work_duration, short_break_duration, long_break_duration,
                   goal, session_history, timer_lock, thread, ui>>

\* Reset with line 60 (is_work_period = True) left out
ResetKeepsPeriod ==
    /\ ui.pc = "idle"
    /\ current_time' = work_duration
    /\ session_count' = 0
    /\ out' = <<update_time(work_duration, is_work_period, 0, work_duration,
                            short_break_duration, long_break_duration)>>
    /\ lastOp' = Op("reset", <<>>)
    /\ notified' = 0
    /\ shown' = Fraction(out'[1])
    /\ stale' = InFlight
    /\ UNCHANGED <<work_duration, short_break_duration, long_break_duration,
                   is_running, is_work_period, goal, session_history,
                   timer_lock, thread, ui>>

\* reset(): lines 58-61
Reset ==
    /\ ui.pc = "idle"
    /\ current_time' = work_duration
    /\ session_count' = 0
    /\ is_work_period' = TRUE
    /\ out' = <<update_time(work_duration, TRUE, 0, work_duration,
                            short_break_duration, long_break_duration)>>
    /\ lastOp' = Op("reset", <<>>)
    /\ notified' = 0
    /\ shown' = Fraction(out'[1])
    /\ stale' = InFlight
    /\ UNCHANGED <<work_duration, short_break_duration, long_break_duration,
                   is_running, goal, session_history, timer_lock, thread, ui>>

\* SetDurations with line 75 (self.reset()) left out
SetDurationsNoReset(w, s, l) ==
    /\ ui.pc = "idle"
    /\ work_duration' = w
    /\ short_break_duration' = s
    /\ long_break_duration' = l
    /\ out' = <<>>
    /\ lastOp' = Op("set_durations", <<w, s, l>>)
    /\ UNCHANGED <<notified, shown>>
    /\ UNCHANGED <<is_running, goal, session_history, current_time,
                   is_work_period, session_count, timer_lock, thread, ui, stale>>

\* set_durations(w, s, l): lines 72-75, the reset of line 75 included
SetDurations(w, s, l) ==
    /\ ui.pc = "idle"
    /\ work_duration' = w
    /\ short_break_duration' = s
    /\ long_break_duration' = l
    /\ current_time' = w
    /\ session_count' = 0
    /\ is_work_period' = TRUE
    /\ out' = <<update_time(w, TRUE, 0, w, s, l)>>
    /\ lastOp' = Op("set_durations", <<w, s, l>>)
    /\ notified' = 0
    /\ shown' = Fraction(out'[1])
    /\ stale' = InFlight
    /\ UNCHANGED <<is_running, goal, session_history, timer_lock, thread, ui>>

\* toggle(): lines 81-83.  Line 83 calls self.start_timer() without the goal
\* argument start_timer requires: the call raises TypeError before any
\* statement of start_timer runs, so turning the flag on starts no thread.
Toggle ==
    /\ ui.pc = "idle"
    /\ is_running' = ~is_running
    /\ out' = <<>>
    /\ lastOp' = Op(IF is_running THEN "toggle_off" ELSE "toggle_on", <<>>)
    /\ UNCHANGED <<notified, shown>>
    /\ UNCHANGED stale
    /\ UNCHANGED <<work_duration, short_break_duration, long_break_duration,
                   goal, session_history, current_time, is_work_period,
                   session_count, timer_lock, thread, ui>>

\* start_timer(goal): lines 92-98, up to the acquisition of timer_lock
StartTimer(g) ==
    /\ ui.pc = "idle"
    /\ is_running' = TRUE
    /\ goal' = g
    /\ session_history' = Append(session_history, [type |-> "Work", goal |-> g])
    /\ out' = <<Signal("session_change", <<"Work">>),
                update_time(current_time, is_work_period, session_count,
                            work_duration, short_break_duration, long_break_duration)>>
    /\ ui' = [pc |-> "lock", was_running |-> is_running]
    /\ lastOp' = Op("start_timer", <<g>>)
    /\ shown' = Fraction(out'[2])
    /\ UNCHANGED notified
    /\ UNCHANGED stale
    /\ UNCHANGED <<work_duration, short_break_duration, long_break_duration,
                   current_time, is_work_period, session_count, timer_lock, thread>>

\* start_timer: lines 101-102.  The UI thread takes timer_lock, starts the
\* countdown thread and releases the lock; no other thread can act between.
StartTimerSpawn ==
    /\ ui.pc = "lock"
    /\ timer_lock = 0
    /\ FreeSlots # {}
    /\ thread' = Spawned(thread)
    /\ ui' = [pc |-> "idle", was_running |-> FALSE]
    /\ out' = <<>>
    /\ lastOp' = Op("start_timer_spawn", <<>>)
    /\ UNCHANGED <<notified, shown>>
    /\ UNCHANGED stale
    /\ UNCHANGED <<work_duration, short_break_duration, long_break_duration,
                   is_running, goal, session_history, current_time,
                   is_work_period, session_count, timer_lock>>

\* ---- run_timer -----------------------------------------------------------
\* Acquire that enters run_timer's block without waiting for timer_lock
AcquireNoLock(t) ==
    /\ At(t, "acquire")
    /\ timer_lock' = t
    /\ thread' = Goto(t, "loop")
    /\ out' = <<>>
    /\ lastOp' = Op("acquire", <<t>>)
    /\ UNCHANGED <<notified, shown>>
    /\ UNCHANGED <<work_duration, short_break_duration, long_break_duration,
                   is_running, goal, session_history, current_time,
                   is_work_period, session_count, ui, stale>>

\* line 109: with timer_lock
Acquire(t) ==
    /\ At(t, "acquire")
    /\ timer_lock = 0
    /\ timer_lock' = t
    /\ thread' = Goto(t, "loop")
    /\ out' = <<>>
    /\ lastOp' = Op("acquire", <<t>>)
    /\ UNCHANGED <<notified, shown>>
    /\ UNCHANGED stale
    /\ UNCHANGED <<work_duration, short_break_duration, long_break_duration,
                   is_running, goal, session_history, current_time,
                   is_work_period, session_count, ui>>

\* line 110: while self.current_time > 0 and self.is_running
LoopTest(t) ==
    /\ At(t, "loop")
    /\ thread' = Goto(t, IF current_time > 0 /\ is_running THEN "sleep" ELSE "fin")
    /\ out' = <<>>
    /\ lastOp' = Op("loop_test", <<t>>)
    /\ UNCHANGED <<notified, shown>>
    /\ UNCHANGED stale
    /\ UNCHANGED <<work_duration, short_break_duration, long_break_duration,
                   is_running, goal, session_history, current_time,
                   is_work_period, session_count, timer_lock, ui>>

\* lines 111-112: time.sleep(1) ends and current_time is loaded
Sleep(t) ==
    /\ At(t, "sleep")
    /\ thread' = [thread EXCEPT ![t] = [pc |-> "dec", tmp |-> current_time, session_type |-> ""]]
    /\ out' = <<>>
    /\ lastOp' = Op("sleep", <<t>>)
    /\ UNCHANGED <<notified, shown>>
    /\ UNCHANGED stale
    /\ UNCHANGED <<work_duration, short_break_duration, long_break_duration,
                   is_running, goal, session_history, current_time,
                   is_work_period, session_count, timer_lock, ui>>

\* lines 112-115: current_time is stored, notify_user and update are emitted
Decrement(t) ==
    /\ At(t, "dec")
    /\ current_time' = thread[t].tmp - 1
    /\ out' = (IF current_time' = NotifySeconds /\ ~is_work_period
               THEN <<Signal("notify_user", <<>>)>> ELSE <<>>)
              \o <<update_time(current_time', is_work_period, session_count,
                               work_duration, short_break_duration, long_break_duration)>>
    /\ thread' = Goto(t, "loop")
    /\ lastOp' = Op("decrement", <<t>>)
    /\ notified' = notified + Cardinality(Emitted(out', "notify_user"))
    /\ shown' = Fraction(out'[Len(out')])
    /\ stale' = 0
    /\ UNCHANGED <<work_duration, short_break_duration, long_break_duration,
                   is_running, goal, session_history, is_work_period,
                   session_count, timer_lock, ui>>

\* FinishTest without the "and self.is_running" of line 116
FinishTestIgnoresPause(t) ==
    /\ At(t, "fin")
    /\ IF current_time = 0
       THEN /\ out' = <<Signal("finish", <<>>)>>
            /\ thread' = Goto(t, "sw_flip")
            /\ UNCHANGED <<timer_lock, stale>>
       ELSE /\ out' = <<>>
            /\ thread' = [thread EXCEPT ![t] = NoThread]
            /\ timer_lock' = 0
            /\ UNCHANGED stale
    /\ lastOp' = Op("finish_test", <<t>>)
    /\ UNCHANGED <<notified, shown>>
    /\ UNCHANGED <<work_duration, short_break_duration, long_break_duration,
                   is_running, goal, session_history, current_time,
                   is_work_period, session_count, ui>>

\* lines 116-118: after the loop; the thread leaves run_timer and releases
\* timer_lock when the period has not ended or the timer is paused
FinishTest(t) ==
    /\ At(t, "fin")
    /\ IF current_time = 0 /\ is_running
       THEN /\ out' = <<Signal("finish", <<>>)>>
            /\ thread' = Goto(t, "sw_flip")
            /\ UNCHANGED <<timer_lock, stale>>
       ELSE /\ out' = <<>>
            /\ thread' = [thread EXCEPT ![t] = NoThread]
            /\ timer_lock' = 0
            /\ UNCHANGED stale
    /\ lastOp' = Op("finish_test", <<t>>)
    /\ UNCHANGED <<notified, shown>>
    /\ UNCHANGED <<work_duration, short_break_duration, long_break_duration,
                   is_running, goal, session_history, current_time,
                   is_work_period, session_count, ui>>

\* ---- switch_period -------------------------------------------------------
\* lines 125-126: is_work_period is flipped and session_count is loaded
SwitchFlip(t) ==
    /\ At(t, "sw_flip")
    /\ is_work_period' = ~is_work_period
    /\ thread' = [thread EXCEPT ![t] = [pc |-> "sw_inc", tmp |-> session_count, session_type |-> ""]]
    /\ out' = <<>>
    /\ lastOp' = Op("switch_flip", <<t>>)
    /\ UNCHANGED <<notified, shown>>
    /\ UNCHANGED stale
    /\ UNCHANGED <<work_duration, short_break_duration, long_break_duration,
                   is_running, goal, session_history, current_time,
                   session_count, timer_lock, ui>>

\* SwitchCount that adds 2
SwitchCountTwo(t) ==
    /\ At(t, "sw_inc")
    /\ session_count' = thread[t].tmp + 2
    /\ thread' = Goto(t, "sw_append")
    /\ out' = <<>>
    /\ lastOp' = Op("switch_count", <<t>>)
    /\ UNCHANGED <<notified, shown, stale>>
    /\ UNCHANGED <<work_duration, short_break_duration, long_break_duration,
                   is_running, goal, session_history, current_time,
                   is_work_period, timer_lock, ui>>

\* line 126: session_count is stored
SwitchCount(t) ==
    /\ At(t, "sw_inc")
    /\ session_count' = thread[t].tmp + 1
    /\ thread' = Goto(t, "sw_append")
    /\ out' = <<>>
    /\ lastOp' = Op("switch_count", <<t>>)
    /\ UNCHANGED <<notified, shown>>
    /\ UNCHANGED stale
    /\ UNCHANGED <<work_duration, short_break_duration, long_break_duration,
                   is_running, goal, session_history, current_time,
                   is_work_period, timer_lock, ui>>

\* SwitchAppend that overwrites the last history entry instead of appending
SwitchAppendOverwrite(t) ==
    /\ At(t, "sw_append")
    /\ LET session_type == IF is_work_period THEN "Work" ELSE "Break"
       IN  /\ session_history' = [session_history EXCEPT ![Len(session_history)] =
                                        [type |-> session_type, goal |-> goal]]
           /\ thread' = [thread EXCEPT ![t] = [pc |-> "sw_time", tmp |-> 0,
                                               session_type |-> session_type]]
    /\ out' = <<>>
    /\ lastOp' = Op("switch_append", <<t>>)
    /\ UNCHANGED <<notified, shown>>
    /\ UNCHANGED <<work_duration, short_break_duration, long_break_duration,
                   is_running, goal, current_time, is_work_period,
                   session_count, timer_lock, ui, stale>>

\* lines 127-128: session_type is chosen and the history entry appended
SwitchAppend(t) ==
    /\ At(t, "sw_append")
    /\ LET session_type == IF is_work_period THEN "Work" ELSE "Break"
       IN  /\ session_history' = Append(session_history,
                                        [type |-> session_type, goal |-> goal])
           /\ thread' = [thread EXCEPT ![t] = [pc |-> "sw_time", tmp |-> 0,
                                               session_type |-> session_type]]
    /\ out' = <<>>
    /\ lastOp' = Op("switch_append", <<t>>)
    /\ UNCHANGED <<notified, shown>>
    /\ UNCHANGED stale
    /\ UNCHANGED <<work_duration, short_break_duration, long_break_duration,
                   is_running, goal, current_time, is_work_period,
                   session_count, timer_lock, ui>>

\* lines 130-133: current_time is set to the new period's duration
SwitchTime(t) ==
    /\ At(t, "sw_time")
    /\ current_time' = IF ~is_work_period
                       THEN BreakDuration(session_count, short_break_duration,
                                          long_break_duration)
                       ELSE work_duration
    /\ thread' = [thread EXCEPT ![t].pc = "sw_update"]
    /\ out' = <<>>
    /\ lastOp' = Op("switch_time", <<t>>)
    /\ notified' = 0
    /\ UNCHANGED shown
    /\ UNCHANGED stale
    /\ UNCHANGED <<work_duration, short_break_duration, long_break_duration,
                   is_running, goal, session_history, is_work_period,
                   session_count, timer_lock, ui>>

\* SwitchUpdate with line 135 left out
SwitchUpdateSilent(t) ==
    /\ At(t, "sw_update")
    /\ out' = <<>>
    /\ thread' = [thread EXCEPT ![t].pc = "sw_spawn"]
    /\ lastOp' = Op("switch_update", <<t>>)
    /\ UNCHANGED <<notified, shown, stale>>
    /\ UNCHANGED <<work_duration, short_break_duration, long_break_duration,
                   is_running, goal, session_history, current_time,
                   is_work_period, session_count, timer_lock, ui>>

\* line 135: update_time()
SwitchUpdate(t) ==
    /\ At(t, "sw_update")
    /\ out' = <<update_time(current_time, is_work_period, session_count,
                            work_duration, short_break_duration, long_break_duration)>>
    /\ thread' = [thread EXCEPT ![t].pc = "sw_spawn"]
    /\ lastOp' = Op("switch_update", <<t>>)
    /\ shown' = Fraction(out'[1])
    /\ UNCHANGED notified
    /\ UNCHANGED stale
    /\ UNCHANGED <<work_duration, short_break_duration, long_break_duration,
                   is_running, goal, session_history, current_time,
                   is_work_period, session_count, timer_lock, ui>>

\* SwitchSpawn with lines 137-138 left out
SwitchSpawnNever(t) ==
    /\ At(t, "sw_spawn")
    /\ thread' = [thread EXCEPT ![t].pc = "sw_emit"]
    /\ out' = <<>>
    /\ lastOp' = Op("switch_spawn", <<t>>)
    /\ UNCHANGED <<notified, shown, stale>>
    /\ UNCHANGED <<work_duration, short_break_duration, long_break_duration,
                   is_running, goal, session_history, current_time,
                   is_work_period, session_count, timer_lock, ui>>

\* lines 137-138: the next period's countdown thread is started
SwitchSpawn(t) ==
    /\ At(t, "sw_spawn")
    /\ IF is_running
       THEN /\ FreeSlots # {}
            /\ thread' = [Spawned(thread) EXCEPT ![t].pc = "sw_emit"]
       ELSE thread' = [thread EXCEPT ![t].pc = "sw_emit"]
    /\ out' = <<>>
    /\ lastOp' = Op("switch_spawn", <<t>>)
    /\ UNCHANGED <<notified, shown>>
    /\ UNCHANGED stale
    /\ UNCHANGED <<work_duration, short_break_duration, long_break_duration,
                   is_running, goal, session_history, current_time,
                   is_work_period, session_count, timer_lock, ui>>

\* SwitchEmit without the test of line 142
SwitchEmitAlways(t) ==
    /\ At(t, "sw_emit")
    /\ out' = <<Signal("session_change", <<thread[t].session_type>>),
                Signal("reset_goal", <<>>)>>
    /\ thread' = [thread EXCEPT ![t] = NoThread]
    /\ timer_lock' = 0
    /\ lastOp' = Op("switch_emit", <<t>>)
    /\ UNCHANGED <<notified, shown, stale>>
    /\ UNCHANGED <<work_duration, short_break_duration, long_break_duration,
                   is_running, goal, session_history, current_time,
                   is_work_period, session_count, ui>>

\* lines 140-143: session_change and reset_goal are emitted; switch_period
\* and run_timer return, which releases timer_lock and ends the thread
SwitchEmit(t) ==
    /\ At(t, "sw_emit")
    /\ out' = <<Signal("session_change", <<thread[t].session_type>>)>>
              \o (IF is_work_period THEN <<Signal("reset_goal", <<>>)>> ELSE <<>>)
    /\ thread' = [thread EXCEPT ![t] = NoThread]
    /\ timer_lock' = 0
    /\ UNCHANGED stale
    /\ lastOp' = Op("switch_emit", <<t>>)
    /\ UNCHANGED <<notified, shown>>
    /\ UNCHANGED <<work_duration, short_break_duration, long_break_duration,
                   is_running, goal, session_history, current_time,
                   is_work_period, session_count, ui>>

\* ---- specifications ------------------------------------------------------
\* A step of countdown thread t, the history bounded by n entries
ThreadStep(t, n) ==
    \/ Acquire(t)
    \/ LoopTest(t)
    \/ Sleep(t)
    \/ Decrement(t)
    \/ FinishTest(t)
    \/ SwitchFlip(t)
    \/ SwitchCount(t)
    \/ HistRoom(n) /\ SwitchAppend(t)
    \/ SwitchTime(t)
    \/ SwitchUpdate(t)
    \/ SwitchSpawn(t)
    \/ SwitchEmit(t)

\* The UI thread calls any method of the controller at any time
Next ==
    \/ Reset
    \/ \E w, s, l \in Durations : SetDurations(w, s, l)
    \/ Toggle
    \/ \E g \in NewGoals : HistRoom(MaxHist) /\ StartTimer(g)
    \/ StartTimerSpawn
    \/ \E t \in Threads : ThreadStep(t, MaxHist)

Spec == Init /\ [][Next]_vars

\* One start_timer from the state after construction, then the countdown
\* runs with no further UI call
NextRun ==
    \/ \E g \in NewGoals : session_history = <<>> /\ StartTimer(g)
    \/ StartTimerSpawn
    \/ \E t \in Threads : ThreadStep(t, MaxHistRun)

SpecRun == Init /\ [][NextRun]_vars

\* The threads inside switch_period, past its first statement
InSwitchPeriod == {t \in Threads :
                     thread[t].pc \in {"sw_inc", "sw_append", "sw_time",
                                       "sw_update", "sw_spawn", "sw_emit"}}

\* One start_timer, then the countdown runs while the UI thread calls
\* reset, set_durations and toggle at any time except inside switch_period:
\* each UI call and each period transition is atomic with respect to the
\* other
NextAtomic ==
    \/ NextRun
    \/ InSwitchPeriod = {} /\ Reset
    \/ InSwitchPeriod = {} /\ \E w, s, l \in Durations : SetDurations(w, s, l)
    \/ InSwitchPeriod = {} /\ Toggle

SpecAtomic == Init /\ [][NextAtomic]_vars

\* The uninterrupted run under fair scheduling: the UI thread inside
\* start_timer and every countdown thread that can take a step (its sleep
\* is over, timer_lock is free, it is runnable) eventually takes it
SpecLive ==
    /\ SpecRun
    /\ WF_vars(StartTimerSpawn)
    /\ \A t \in Threads : WF_vars(ThreadStep(t, MaxHistRun))

\* The uninterrupted run, with periods longer than a minute
SpecNotify == InitNotify /\ [][NextRun]_vars

\* One start_timer, then the countdown runs while the UI thread calls
\* reset() at any time
NextResetRun ==
    \/ NextRun
    \/ Reset

SpecResetRun == Init /\ [][NextResetRun]_vars

\* ---- properties ----------------------------------------------------------
IsPrefix(a, b) == Len(a) <= Len(b) /\ SubSeq(b, 1, Len(a)) = a
Breaks == {i \in DOMAIN session_history : session_history[i].type = "Break"}
LastType == IF session_history = <<>> THEN ""
            ELSE session_history[Len(session_history)].type

\* C1: in a run of one start_timer and an uninterrupted countdown, when the
\* 4th break begins (switch_period has just set current_time for it),
\* current_time equals long_break_duration.
C1_FourthBreakIsLong ==
    (/\ \E t \in Threads : At(t, "sw_update")
     /\ ~is_work_period
     /\ Cardinality(Breaks) = 4)
    => current_time = long_break_duration

\* C2: when the timer has been started and paused and its countdown thread
\* has left run_timer with current_time > 0, toggle() resumes the countdown:
\* afterwards a countdown thread exists, and current_time, session_history
\* and goal are as before the call.
C2_ToggleResumes ==
    [][(/\ lastOp'.op = "toggle_on"
        /\ session_history # <<>>
        /\ Alive = {}
        /\ current_time > 0)
       => (/\ Alive' # {}
           /\ current_time' = current_time
           /\ session_history' = session_history
           /\ goal' = goal)]_vars

\* C3: a start_timer call made while is_running was already true and a
\* countdown thread exists leaves the number of countdown threads as it was.
C3_NoDuplicateCountdown ==
    [][(/\ lastOp'.op = "start_timer_spawn"
        /\ ui.was_running
        /\ Alive # {})
       => Cardinality(Alive') = Cardinality(Alive)]_vars

\* C4: at most one countdown thread is inside run_timer's locked block, and
\* it is the holder of timer_lock; every other live thread is still waiting
\* to enter.
C4_MutualExclusion ==
    /\ Cardinality(InRunTimer) <= 1
    /\ \A t \in InRunTimer : timer_lock = t

\* C4 witness: one thread is in the middle of a decrement while another
\* thread, started later, waits for timer_lock.
C4_Witness ==
    \E t, u \in Threads : At(t, "dec") /\ At(u, "acquire")

\* C5: the tick's store of current_time loses no update of the UI thread:
\* the value it leaves is the value it found less one (the tick came last)
\* or the value it found (the tick came first).
C5_NoLostUpdate ==
    [][lastOp'.op = "decrement"
       => current_time' \in {current_time - 1, current_time}]_vars

\* C6: a countdown thread whose tick a reset() interrupted performs no
\* decrement of current_time (and so emits no time-update) for that tick.
C6_ResetStopsTick ==
    [][lastOp'.op = "decrement" => lastOp'.args # <<stale>>]_vars

\* C7: right after reset(), current_time = work_duration, the period is a
\* work period, session_count = 0, and exactly one signal, a time-update,
\* has been emitted.
C7_ResetPost ==
    lastOp.op = "reset"
    => /\ current_time = work_duration
       /\ is_work_period
       /\ session_count = 0
       /\ Len(out) = 1
       /\ out[1].sig = "update"

\* C7 witness: reset() has run on a running timer whose last period
\* transition entered a break.
C7_Witness ==
    /\ lastOp.op = "reset"
    /\ is_running
    /\ LastType = "Break"
    /\ current_time = work_duration

\* C8: reset() leaves is_running, session_history, goal and the three
\* durations unchanged.
C8_ResetFrame ==
    [][lastOp'.op = "reset"
       => UNCHANGED <<is_running, session_history, goal, work_duration,
                      short_break_duration, long_break_duration>>]_vars

\* C8 witness: reset() has run on a running timer with a countdown thread
\* alive and a non-empty history.
C8_Witness ==
    /\ lastOp.op = "reset"
    /\ is_running
    /\ Alive # {}
    /\ session_history # <<>>

\* C9: right after set_durations(w, s, l) the three durations are w, s, l,
\* current_time = w, the period is a work period and session_count = 0.
C9_SetDurationsPost ==
    lastOp.op = "set_durations"
    => /\ <<work_duration, short_break_duration, long_break_duration>> = lastOp.args
       /\ current_time = lastOp.args[1]
       /\ is_work_period
       /\ session_count = 0

\* C9 witness: set_durations has run after the last period transition
\* entered a break, with three durations that differ from one another.
C9_Witness ==
    /\ lastOp.op = "set_durations"
    /\ LastType = "Break"
    /\ work_duration # short_break_duration
    /\ short_break_duration # long_break_duration

\* C10: every step leaves the old session_history as a prefix of the new
\* one; start_timer and switch_period's append add exactly one entry and no
\* other step changes the length, so one start_timer followed by N period
\* transitions leaves N + 1 entries.
C10_AppendOnly ==
    [][/\ IsPrefix(session_history, session_history')
       /\ Len(session_history') = Len(session_history) +
              (IF lastOp'.op \in {"start_timer", "switch_append"} THEN 1 ELSE 0)]_vars

\* C10 witness: one start_timer and two period transitions have left three
\* entries, Work, Break, Work.
C10_Witness ==
    /\ lastOp.op = "switch_append"
    /\ session_count = 2
    /\ Len(session_history) = 3
    /\ session_history[1].type = "Work"
    /\ session_history[2].type = "Break"
    /\ session_history[3].type = "Work"

PeriodEnded == \E t \in Threads : At(t, "sw_flip")

\* C12: in a run with no UI call after start_timer, every break is counted
\* from its start to its end, and when it ends exactly one notify_user has
\* been emitted during it; a notify_user is emitted only by a tick that
\* leaves current_time = 60 in a break, and none during a work period.
C12_NotifyOncePerBreak ==
    /\ (PeriodEnded /\ ~is_work_period) => notified = 1
    /\ (PeriodEnded /\ is_work_period) => notified = 0
    /\ Emitted(out, "notify_user") # {} =>
           /\ lastOp.op = "decrement"
           /\ ~is_work_period
           /\ current_time = NotifySeconds

\* The duration of the period the controller is in
ActiveDuration ==
    IF is_work_period THEN work_duration
    ELSE BreakDuration(session_count, short_break_duration, long_break_duration)

\* a <= b for fractions <<numerator, denominator>> with positive denominators
FracLeq(a, b) == a[1] * b[2] <= b[1] * a[2]

\* C13: in a run with no UI call after start_timer, every update signal
\* carries elapsed seconds over the active period's duration; the fraction
\* is 0 in the update that starts a period (start_timer, switch_period), the
\* fraction of a tick's update is not below the fraction of the update before
\* it, and it is exactly 1 in the update of the tick that leaves
\* current_time = 0.
C13_FractionMonotone ==
    [][/\ lastOp'.op \in {"start_timer", "switch_update", "decrement"} =>
            shown' = <<ActiveDuration' - current_time', ActiveDuration'>>
       /\ lastOp'.op \in {"start_timer", "switch_update"} => shown'[1] = 0
       /\ lastOp'.op = "decrement" => FracLeq(shown, shown')
       /\ (lastOp'.op = "decrement" /\ current_time' = 0) =>
            shown'[1] = shown'[2]]_vars

\* the last tick of a break of MaxDur seconds: the fraction has gone from 0
\* through the intermediate values to 1
C13_Witness ==
    /\ lastOp.op = "decrement"
    /\ ~is_work_period
    /\ short_break_duration = MaxDur
    /\ work_duration # MaxDur
    /\ current_time = 0
    /\ shown = <<MaxDur, MaxDur>>

\* C14: in every reachable state, whatever the interleaving of the UI calls
\* and the countdown steps, 0 <= current_time <= the duration of the period
\* the controller is in.
C14_TimeInRange ==
    /\ 0 <= current_time
    /\ current_time <= ActiveDuration

\* The threads of th inside a tick: in time.sleep or about to store
\* current_time
Ticking(th) == {t \in Threads : th[t].pc \in {"sleep", "dec"}}

\* C15: while is_running is false, at most one tick is in flight, no thread
\* starts a new tick (none enters time.sleep), no finish is emitted and no
\* thread enters switch_period; a thread that tests the loop condition or the
\* condition of line 116 leaves, whatever current_time is.
C15_PausedThreadLeaves ==
    [][~is_running =>
          /\ Cardinality(Ticking(thread)) <= 1
          /\ Ticking(thread') \subseteq Ticking(thread)
          /\ Emitted(out', "finish") = {}
          /\ \A t \in Threads :
                /\ thread'[t].pc = "sw_flip" => thread[t].pc = "sw_flip"
                /\ (lastOp'.op = "loop_test" /\ lastOp'.args = <<t>>) =>
                       thread'[t].pc = "fin"
                /\ (lastOp'.op = "finish_test" /\ lastOp'.args = <<t>>) =>
                       thread'[t].pc = "none"
      ]_vars

\* the timer was paused during the last tick of the first work period: the
\* thread has left run_timer with current_time = 0, no finish, no transition
C15_Witness ==
    /\ ~is_running
    /\ lastOp.op = "finish_test"
    /\ current_time = 0
    /\ out = <<>>
    /\ Alive = {}
    /\ is_work_period
    /\ session_count = 0
    /\ Len(session_history) = 1

\* The threads between the flip of is_work_period (line 125) and the update
\* of line 135: the new period is not announced yet
Unannounced == {t \in Threads :
                  thread[t].pc \in {"sw_inc", "sw_append", "sw_time", "sw_update"}}

C17_FinishThenTransition ==
    [][/\ Emitted(out', "finish") # {} <=>
            (lastOp'.op = "finish_test" /\ current_time = 0 /\ is_running)
       /\ Emitted(out', "finish") # {} =>
            /\ out' = <<Signal("finish", <<>>)>>
            /\ thread'[lastOp'.args[1]].pc = "sw_flip"
            /\ UNCHANGED <<is_work_period, session_count, session_history,
                           current_time>>
       /\ (lastOp'.op = "loop_test" /\ current_time = 0) =>
            thread'[lastOp'.args[1]].pc = "fin"
       /\ lastOp'.op = "switch_flip" =>
            /\ is_work_period' = ~is_work_period
            /\ UNCHANGED <<session_count, session_history>>
       /\ lastOp'.op = "switch_count" =>
            /\ session_count' = session_count + 1
            /\ UNCHANGED <<is_work_period, session_history>>
       /\ lastOp'.op = "switch_append" =>
            /\ Len(session_history') = Len(session_history) + 1
            /\ UNCHANGED <<is_work_period, session_count>>
       /\ lastOp'.op \in {"switch_time", "switch_update", "switch_spawn",
                          "switch_emit"} =>
            UNCHANGED <<is_work_period, session_count, session_history>>
       /\ (lastOp'.op = "switch_time" /\ session_count' = 1) =>
            /\ ~is_work_period'
            /\ current_time' = short_break_duration
            /\ Len(session_history') = 2
       /\ (lastOp'.op = "switch_time" /\ session_count' = 2) =>
            /\ is_work_period'
            /\ current_time' = work_duration
            /\ Len(session_history') = 3]_vars

\* work = 2, short = 1: after start_timer and 3 ticks the second transition
\* has set up a work period with session_count = 2 and current_time = 2
C17_Witness ==
    /\ work_duration = 2
    /\ short_break_duration = 1
    /\ lastOp.op = "switch_time"
    /\ is_work_period
    /\ session_count = 2
    /\ current_time = 2
    /\ Len(session_history) = 3

Period(k) == Len(session_history) = k

\* The k-th period has just begun: start_timer or switch_period has appended
\* its entry
Begun(k) == Period(k) /\ lastOp.op \in {"start_timer", "switch_append"}

\* C19: in a run with no UI call after start_timer, under fair scheduling,
\* every period that has begun ends with a finish, and is followed by a
\* period transition and by the first tick of the next period's countdown
\* (for every period whose successor the history bound admits); a thread
\* waiting for timer_lock eventually holds it.
C19_PeriodsKeepComing ==
    /\ \A k \in 1..MaxHistRun :
          Begun(k) ~> (Period(k) /\ Emitted(out, "finish") # {})
    /\ \A k \in 1..(MaxHistRun - 1) :
          Begun(k) ~> Begun(k + 1)
    /\ \A k \in 1..(MaxHistRun - 1) :
          Begun(k) ~> (Period(k + 1) /\ \E t \in Threads : At(t, "sleep"))
    /\ \A t \in Threads : At(t, "acquire") ~> (timer_lock = t)

\* the third period is being counted by a thread that switch_period started
C19_Witness ==
    /\ Period(3)
    /\ session_count = 2
    /\ is_work_period
    /\ \E t \in Threads : At(t, "sleep")

\* C20: the goal is cleared or replaced whenever a work period starts, so the
\* history entry of a work period carries the empty goal or a goal that no
\* entry of an earlier work period carries.
C20_GoalClearedOnNewWork ==
    \A i, j \in DOMAIN session_history :
        (/\ i < j
         /\ session_history[i].type = "Work"
         /\ session_history[j].type = "Work")
        => \/ session_history[j].goal = <<>>
           \/ session_history[j].goal # session_history[i].goal

\* C21: when no UI call runs inside switch_period, in every state outside
\* the two statements of lines 125-126 is_work_period is true exactly when
\* session_count is even, and switch_period never sets the time of a break
\* with session_count % 4 = 0.
C21_ParityOfCount ==
    /\ (\A t \in Threads : ~At(t, "sw_inc")) =>
           (is_work_period <=> session_count % 2 = 0)
    /\ (lastOp.op = "switch_time" /\ ~is_work_period) =>
           session_count % LongBreakEvery # 0

\* the third break is entered, with session_count = 5
C21_Witness ==
    /\ lastOp.op = "switch_time"
    /\ ~is_work_period
    /\ session_count = 5
    /\ current_time = short_break_duration

\* C22: an entry appended to session_history, by switch_period or by a
\* start_timer call made while the timer is paused and no countdown thread
\* is left (the call the GUI's toggle_timer makes to restart it), has the
\* type of the period in force at that moment: "Work" exactly when
\* is_work_period is true.
C22_EntryTypeIsPeriod ==
    [][(/\ Len(session_history') > Len(session_history)
        /\ lastOp'.op = "start_timer" => (~is_running /\ Alive = {}))
       => session_history'[Len(session_history')].type =
              IF is_work_period' THEN "Work" ELSE "Break"]_vars

\* The UI thread is inside a start_timer call made on a paused timer and
\* waits for timer_lock, which a countdown thread holds
StartBlocked == ui.pc = "lock" /\ ~ui.was_running /\ timer_lock # 0

\* C23: while the UI thread is blocked on timer_lock in a start_timer call
\* made on a paused timer, the countdown thread that holds the lock starts
\* no new tick: when it has finished the tick in flight (the store of
\* current_time and its update), its next loop check leaves the loop.
C23_StartNotBlocked ==
    [][(/\ StartBlocked
        /\ lastOp.op = "decrement"
        /\ lastOp'.op = "loop_test")
       => thread'[lastOp'.args[1]].pc = "fin"]_vars

====
